---- MODULE Spec2Model ----
(***************************************************************************)
(* State-machine model of the SGAD auth service: the login orchestrator,   *)
(* the token service (issue / verify / refresh), the permission evaluator  *)
(* and their HTTP controllers, over a credential store (the users table)   *)
(* that other parties may change between requests.                         *)
(***************************************************************************)
EXTENDS Integers, Sequences, FiniteSets, TLC

\* ------------------------------------------------------------------ bounds
MaxTime == 3            \* the clock runs over 0..MaxTime (seconds, scaled)

\* ------------------------------------------------------- configuration
JWT_SECRET == "JWT_SECRET"
JWT_EXPIRES_IN == 2     \* token lifetime ('24h'), in clock ticks
ISSUER == "sgad-auth-service"
AUDIENCE == "sgad-system"

\* ------------------------------------------------------------ value sets
UserIds == {1, 2}
Roles == {"arbitro", "administrador", "presidente"}
\* role strings a caller or a row may carry: the three roles, an unmapped
\* one, the empty string and two names inherited from Object.prototype
RoleNames == Roles \cup {"invitado", "", "constructor", "toString"}

\* e-mail addresses are character sequences so that case and blanks exist
EmailOf(id) == IF id = 1 THEN <<"a", "@", "x">> ELSE <<"b", "@", "x">>
EmailInputs ==
  { <<"a", "@", "x">>, <<"A", "@", "x">>, <<"b", "@", "x">>,
    <<"z", "@", "x">>, <<" ", "a", "@", "x">>, <<"a", "x">> }

\* passwords: plaintext name and its length
Passwords == {"secret1", "secret2", "short"}
PwLen(p) == IF p = "short" THEN 5 ELSE 7
PasswordOf(id) == IF id = 1 THEN "secret1" ELSE "secret2"

\* bcrypt: a one-way salted hash, and its comparison
bcryptHash(p) == <<"bcrypt", p>>
bcryptCompare(p, h) == h = bcryptHash(p)

VARIABLES
  users,      \* the users table: id -> [present, role, is_active]
  updated_at, \* users.updated_at per id
  now,        \* the clock, Math.floor(Date.now() / 1000)
  tok,        \* the bearer token the client holds (<<>> or <<token>>)
  last,       \* the request just handled and its response
  req,        \* the request passing through the middleware chain
  pool        \* the connection pool and the clients getClient handed out
vars == <<users, updated_at, now, tok, last, req, pool>>

\* ---------------------------------------------------------- string helpers
\* String.prototype.toLowerCase over the model's alphabet
toLowerCase(s) == [i \in 1..Len(s) |-> IF s[i] = "A" THEN "a" ELSE s[i]]

RECURSIVE trimStart(_)
trimStart(s) == IF s # <<>> /\ Head(s) = " " THEN trimStart(Tail(s)) ELSE s

RECURSIVE trimEnd(_)
trimEnd(s) ==
  IF s # <<>> /\ s[Len(s)] = " " THEN trimEnd(SubSeq(s, 1, Len(s) - 1)) ELSE s

\* String.prototype.trim
trim(s) == trimEnd(trimStart(s))

\* Joi string().email(): one "@" with text on both sides and no blank
isEmailFormat(s) ==
  /\ \A i \in 1..Len(s) : s[i] # " "
  /\ Cardinality({i \in 1..Len(s) : s[i] = "@"}) = 1
  /\ Len(s) >= 3 /\ s[1] # "@" /\ s[Len(s)] # "@"

\* loginSchema: email required and well formed, password of 6..100 characters
validateLoginInput(body) ==
  isEmailFormat(body.email) /\ PwLen(body.password) >= 6 /\ PwLen(body.password) <= 100

\* ------------------------------------------------------- credential store
\* A lookup returns result.rows[0] || null: a sequence of at most one row.
NoRow == <<>>

findUserByEmail(store, email) ==
  LET hit == {id \in UserIds : /\ store[id].present
                               /\ EmailOf(id) = email
                               /\ store[id].is_active = TRUE}
  IN IF hit = {} THEN NoRow
     ELSE LET id == CHOOSE i \in hit : TRUE
          IN << [id |-> id, email |-> EmailOf(id),
                 password_hash |-> bcryptHash(PasswordOf(id)),
                 role |-> store[id].role, is_active |-> store[id].is_active] >>

findUserById(store, userId) ==
  LET hit == {id \in UserIds : /\ store[id].present
                               /\ id = userId
                               /\ store[id].is_active = TRUE}
  IN IF hit = {} THEN NoRow
     ELSE LET id == CHOOSE i \in hit : TRUE
          IN << [id |-> id, email |-> EmailOf(id),
                 role |-> store[id].role, is_active |-> store[id].is_active] >>

\* UPDATE users SET updated_at = CURRENT_TIMESTAMP WHERE id = $1
updateLastLogin(stamps, userId, t) ==
  [id \in UserIds |-> IF id = userId THEN t ELSE stamps[id]]

\* ------------------------------------------------------------------ tokens
NoPayload ==
  [userId |-> 0, email |-> <<>>, role |-> "", iat |-> 0, exp |-> 0,
   iss |-> "", aud |-> ""]

\* HMAC signature of a payload under a key
hmac(key, payload) == <<key, payload>>

\* jwt.sign(payload, secret, {expiresIn, issuer, audience})
jwtSign(payload, secret) ==
  LET full == [payload EXCEPT !.exp = payload.iat + JWT_EXPIRES_IN,
                              !.iss = ISSUER, !.aud = AUDIENCE]
  IN [form |-> "jwt", payload |-> full, sig |-> hmac(secret, full)]

\* jwtVerify rejecting a token one second before its expiry
jwtVerify_expiresEarly(token, secret, ignoreExpiration, t) ==
  IF token.form # "jwt" \/ token.sig # hmac(secret, token.payload)
  THEN [name |-> "JsonWebTokenError", decoded |-> NoPayload]
  ELSE IF ~ignoreExpiration /\ t + 1 >= token.payload.exp
  THEN [name |-> "TokenExpiredError", decoded |-> NoPayload]
  ELSE [name |-> "", decoded |-> token.payload]

\* jwtVerify with the ignoreExpiration option not honoured
jwtVerify_alwaysExpires(token, secret, ignoreExpiration, t) ==
  IF token.form # "jwt" \/ token.sig # hmac(secret, token.payload)
  THEN [name |-> "JsonWebTokenError", decoded |-> NoPayload]
  ELSE IF t >= token.payload.exp
  THEN [name |-> "TokenExpiredError", decoded |-> NoPayload]
  ELSE [name |-> "", decoded |-> token.payload]

\* jwt.verify(token, secret, {ignoreExpiration}): the decoded payload, or the
\* name of the error thrown.  The signature is checked before the expiry.
jwtVerify(token, secret, ignoreExpiration, t) ==
  IF token.form # "jwt" \/ token.sig # hmac(secret, token.payload)
  THEN [name |-> "JsonWebTokenError", decoded |-> NoPayload]
  ELSE IF ~ignoreExpiration /\ t >= token.payload.exp
  THEN [name |-> "TokenExpiredError", decoded |-> NoPayload]
  ELSE [name |-> "", decoded |-> token.payload]

\* generateJWT(user)
generateJWT(user, t) ==
  jwtSign([NoPayload EXCEPT !.userId = user.id, !.email = user.email,
                            !.role = user.role, !.iat = t], JWT_SECRET)

\* ------------------------------------------------------------ auth service
\* What a service call gives back: a value, or the Error it throws.
NoError == [name |-> "", message |-> ""]
Error(message) == [name |-> "Error", message |-> message]
Thrown(err, stamps) ==
  [ok |-> FALSE, err |-> err, user |-> <<>>, token |-> <<>>,
   tokenValid |-> FALSE, expiresIn |-> 0, updated_at |-> stamps]
Returned(user, token, valid, expiresIn, stamps) ==
  [ok |-> TRUE, err |-> NoError, user |-> user, token |-> token,
   tokenValid |-> valid, expiresIn |-> expiresIn, updated_at |-> stamps]

\* the userData projection of a row (no password_hash)
userData(row) == [id |-> row.id, email |-> row.email, role |-> row.role]

\* a failing pool.query: the driver's own error
DbError == [name |-> "Error", message |-> "connect ECONNREFUSED"]
\* a failing jwt.sign: the library's own error
SignError == [name |-> "Error", message |-> "secretOrPrivateKey must have a value"]

\* loginUserTry with an unknown e-mail reported under its own name
loginUserTry_notFoundNamed(store, stamps, email, password, t, fault) ==
  IF fault = "find" THEN Thrown(DbError, stamps)
  ELSE
    LET found == findUserByEmail(store, trim(toLowerCase(email))) IN
    IF found = NoRow THEN Thrown(Error("USER_NOT_FOUND"), stamps)
    ELSE
      LET user == found[1] IN
      IF ~bcryptCompare(password, user.password_hash)
      THEN Thrown(Error("INVALID_CREDENTIALS"), stamps)
      ELSE IF ~user.is_active THEN Thrown(Error("USER_INACTIVE"), stamps)
      ELSE IF fault = "update" THEN Thrown(DbError, stamps)
      ELSE IF fault = "sign"
      THEN Thrown(SignError, updateLastLogin(stamps, user.id, t))
      ELSE Returned(<<userData(user)>>, <<generateJWT(user, t)>>, FALSE,
                    JWT_EXPIRES_IN, updateLastLogin(stamps, user.id, t))

\* loginUserTry with the last-login update made best-effort
loginUserTry_bestEffortUpdate(store, stamps, email, password, t, fault) ==
  IF fault = "find" THEN Thrown(DbError, stamps)
  ELSE
    LET found == findUserByEmail(store, trim(toLowerCase(email))) IN
    IF found = NoRow THEN Thrown(Error("INVALID_CREDENTIALS"), stamps)
    ELSE
      LET user == found[1] IN
      IF ~bcryptCompare(password, user.password_hash)
      THEN Thrown(Error("INVALID_CREDENTIALS"), stamps)
      ELSE IF ~user.is_active THEN Thrown(Error("USER_INACTIVE"), stamps)
      ELSE IF fault = "sign"
      THEN Thrown(SignError, updateLastLogin(stamps, user.id, t))
      ELSE Returned(<<userData(user)>>, <<generateJWT(user, t)>>, FALSE,
                    JWT_EXPIRES_IN,
                    IF fault = "update" THEN stamps
                    ELSE updateLastLogin(stamps, user.id, t))

\* loginUserTry as it would be if the lookup returned inactive rows too and
\* the active flag were tested before the password
loginUserTry_activeFirst(store, stamps, email, password, t, fault) ==
  IF fault = "find" THEN Thrown(DbError, stamps)
  ELSE
    LET hit == {id \in UserIds : /\ store[id].present
                                 /\ EmailOf(id) = trim(toLowerCase(email))}
    IN
    IF hit = {} THEN Thrown(Error("INVALID_CREDENTIALS"), stamps)
    ELSE
      LET id == CHOOSE i \in hit : TRUE
          user == [id |-> id, email |-> EmailOf(id), role |-> store[id].role]
      IN
      IF ~store[id].is_active THEN Thrown(Error("USER_INACTIVE"), stamps)
      ELSE IF ~bcryptCompare(password, bcryptHash(PasswordOf(id)))
      THEN Thrown(Error("INVALID_CREDENTIALS"), stamps)
      ELSE IF fault = "update" THEN Thrown(DbError, stamps)
      ELSE IF fault = "sign"
      THEN Thrown(SignError, updateLastLogin(stamps, id, t))
      ELSE Returned(<<userData(user)>>, <<generateJWT(user, t)>>, FALSE,
                    JWT_EXPIRES_IN, updateLastLogin(stamps, id, t))

\* loginUser, the try block.  fault names the call that fails, if any: the
\* store's lookup, the store's update, or jwt.sign.
loginUserTry(store, stamps, email, password, t, fault) ==
  IF fault = "find" THEN Thrown(DbError, stamps)
  ELSE
    LET found == findUserByEmail(store, trim(toLowerCase(email))) IN
    IF found = NoRow THEN Thrown(Error("INVALID_CREDENTIALS"), stamps)
    ELSE
      LET user == found[1] IN
      IF ~bcryptCompare(password, user.password_hash)
      THEN Thrown(Error("INVALID_CREDENTIALS"), stamps)
      ELSE IF ~user.is_active THEN Thrown(Error("USER_INACTIVE"), stamps)
      ELSE IF fault = "update" THEN Thrown(DbError, stamps)
      ELSE IF fault = "sign"
      THEN Thrown(SignError, updateLastLogin(stamps, user.id, t))
      ELSE Returned(<<userData(user)>>, <<generateJWT(user, t)>>, FALSE,
                    JWT_EXPIRES_IN, updateLastLogin(stamps, user.id, t))

\* loginUserCatch as it would be if unexpected errors were rethrown as they are
loginUserCatch_rethrows(err) ==
  IF err.message = "INVALID_CREDENTIALS" THEN Error("Email o contraseña incorrectos")
  ELSE IF err.message = "USER_INACTIVE"
  THEN Error("Usuario inactivo. Contacta al administrador")
  ELSE err

\* loginUser, the catch block
loginUserCatch(err) ==
  IF err.message = "INVALID_CREDENTIALS" THEN Error("Email o contraseña incorrectos")
  ELSE IF err.message = "USER_INACTIVE"
  THEN Error("Usuario inactivo. Contacta al administrador")
  ELSE Error("Error al procesar el login")

loginUser(store, stamps, email, password, t, fault) ==
  LET r == loginUserTry(store, stamps, email, password, t, fault)
  IN IF r.ok THEN r ELSE Thrown(loginUserCatch(r.err), r.updated_at)

\* verifyTokenTry answering with the identity embedded in the token
verifyTokenTry_payloadPrincipal(store, stamps, token, t, fault) ==
  LET v == jwtVerify(token, JWT_SECRET, FALSE, t) IN
  IF v.name # "" THEN Thrown([name |-> v.name, message |-> "jwt"], stamps)
  ELSE IF fault = "find" THEN Thrown(DbError, stamps)
  ELSE
    LET found == findUserById(store, v.decoded.userId) IN
    IF found = NoRow THEN Thrown(Error("USER_NOT_FOUND"), stamps)
    ELSE IF ~found[1].is_active THEN Thrown(Error("USER_INACTIVE"), stamps)
    ELSE Returned(<<[id |-> v.decoded.userId, email |-> v.decoded.email,
                     role |-> v.decoded.role]>>, <<>>, TRUE, 0, stamps)

\* verifyTokenTry as it would be if a token could be verified only once in a
\* row
verifyTokenTry_singleUse(store, stamps, token, t, fault) ==
  LET v == jwtVerify(token, JWT_SECRET, FALSE, t) IN
  IF v.name # "" THEN Thrown([name |-> v.name, message |-> "jwt"], stamps)
  ELSE IF /\ last.op = "verify" /\ last.res.status = 200
          /\ last.header # <<>> /\ last.header[1].rest = token
  THEN Thrown([name |-> "JsonWebTokenError", message |-> "jwt"], stamps)
  ELSE IF fault = "find" THEN Thrown(DbError, stamps)
  ELSE
    LET found == findUserById(store, v.decoded.userId) IN
    IF found = NoRow THEN Thrown(Error("USER_NOT_FOUND"), stamps)
    ELSE IF ~found[1].is_active THEN Thrown(Error("USER_INACTIVE"), stamps)
    ELSE Returned(<<userData(found[1])>>, <<>>, TRUE, 0, stamps)

\* verifyToken (service), the try block
verifyTokenTry(store, stamps, token, t, fault) ==
  LET v == jwtVerify(token, JWT_SECRET, FALSE, t) IN
  IF v.name # "" THEN Thrown([name |-> v.name, message |-> "jwt"], stamps)
  ELSE IF fault = "find" THEN Thrown(DbError, stamps)
  ELSE
    LET found == findUserById(store, v.decoded.userId) IN
    IF found = NoRow THEN Thrown(Error("USER_NOT_FOUND"), stamps)
    ELSE IF ~found[1].is_active THEN Thrown(Error("USER_INACTIVE"), stamps)
    ELSE Returned(<<userData(found[1])>>, <<>>, TRUE, 0, stamps)

\* verifyToken (service), the catch block
verifyTokenCatch(err) ==
  IF err.name = "JsonWebTokenError" THEN Error("Token inválido")
  ELSE IF err.name = "TokenExpiredError" THEN Error("Token expirado")
  ELSE IF err.message = "USER_NOT_FOUND" THEN Error("Usuario no encontrado")
  ELSE IF err.message = "USER_INACTIVE" THEN Error("Usuario inactivo")
  ELSE Error("Error al verificar el token")

verifyToken(store, stamps, token, t, fault) ==
  LET r == verifyTokenTry(store, stamps, token, t, fault)
  IN IF r.ok THEN r ELSE Thrown(verifyTokenCatch(r.err), r.updated_at)

\* refreshTokenTry re-issuing from the presented token's payload
refreshTokenTry_stalePayload(store, stamps, token, t, fault) ==
  LET v == jwtVerify(token, JWT_SECRET, TRUE, t) IN
  IF v.name # "" THEN Thrown([name |-> v.name, message |-> "jwt"], stamps)
  ELSE IF fault = "find" THEN Thrown(DbError, stamps)
  ELSE
    LET found == findUserById(store, v.decoded.userId) IN
    IF found = NoRow \/ ~found[1].is_active
    THEN Thrown(Error("Usuario no válido para refresh"), stamps)
    ELSE IF fault = "sign" THEN Thrown(SignError, stamps)
    ELSE Returned(<<>>,
                  <<generateJWT([id |-> v.decoded.userId, email |-> v.decoded.email,
                                 role |-> v.decoded.role], t)>>,
                  FALSE, JWT_EXPIRES_IN, stamps)

\* refreshTokenTry as it would be if only a token that has just expired
\* could be renewed
refreshTokenTry_graceWindow(store, stamps, token, t, fault) ==
  LET v == jwtVerify(token, JWT_SECRET, TRUE, t) IN
  IF v.name # "" THEN Thrown([name |-> v.name, message |-> "jwt"], stamps)
  ELSE IF t > v.decoded.exp
  THEN Thrown([name |-> "TokenExpiredError", message |-> "jwt"], stamps)
  ELSE IF fault = "find" THEN Thrown(DbError, stamps)
  ELSE
    LET found == findUserById(store, v.decoded.userId) IN
    IF found = NoRow \/ ~found[1].is_active
    THEN Thrown(Error("Usuario no válido para refresh"), stamps)
    ELSE IF fault = "sign" THEN Thrown(SignError, stamps)
    ELSE Returned(<<>>, <<generateJWT(found[1], t)>>, FALSE, JWT_EXPIRES_IN, stamps)

\* refreshToken (service), the try block
refreshTokenTry(store, stamps, token, t, fault) ==
  LET v == jwtVerify(token, JWT_SECRET, TRUE, t) IN
  IF v.name # "" THEN Thrown([name |-> v.name, message |-> "jwt"], stamps)
  ELSE IF fault = "find" THEN Thrown(DbError, stamps)
  ELSE
    LET found == findUserById(store, v.decoded.userId) IN
    IF found = NoRow \/ ~found[1].is_active
    THEN Thrown(Error("Usuario no válido para refresh"), stamps)
    ELSE IF fault = "sign" THEN Thrown(SignError, stamps)
    ELSE Returned(<<>>, <<generateJWT(found[1], t)>>, FALSE, JWT_EXPIRES_IN, stamps)

\* refreshToken (service), the catch block: every error becomes the same one
refreshTokenCatch(err) == Error("Error al refrescar el token")

refreshToken(store, stamps, token, t, fault) ==
  LET r == refreshTokenTry(store, stamps, token, t, fault)
  IN IF r.ok THEN r ELSE Thrown(refreshTokenCatch(r.err), r.updated_at)

\* roleHierarchy[key]: an own number, undefined, or a member inherited from
\* Object.prototype (a function)
roleHierarchy(key) ==
  IF key = "presidente" THEN [t |-> "number", v |-> 3]
  ELSE IF key = "administrador" THEN [t |-> "number", v |-> 2]
  ELSE IF key = "arbitro" THEN [t |-> "number", v |-> 1]
  ELSE IF key = "constructor" THEN [t |-> "function", v |-> 1]  \* "function Object..."
  ELSE IF key = "toString" THEN [t |-> "function", v |-> 2]     \* "function toString..."
  ELSE [t |-> "undefined", v |-> 0]

\* x || 0: undefined is falsy; the levels 1..3 and a function are truthy
orZero(x) == IF x.t = "undefined" THEN [t |-> "number", v |-> 0] ELSE x

\* a >= b: numeric on two numbers; a function against a number compares NaN
\* (false); two functions compare by their source text
greaterOrEqual(a, b) == a.t = b.t /\ a.v >= b.v

\* validatePermissions with a strict comparison
validatePermissions_strict(user, requiredRole) ==
  LET userLevel == orZero(roleHierarchy(user.role))
      requiredLevel == orZero(roleHierarchy(requiredRole))
  IN ~greaterOrEqual(requiredLevel, userLevel)

validatePermissions(user, requiredRole) ==
  LET userLevel == orZero(roleHierarchy(user.role))
      requiredLevel == orZero(roleHierarchy(requiredRole))
  IN greaterOrEqual(userLevel, requiredLevel)

\* -------------------------------------------------------------- controllers
NoData == [user |-> <<>>, token |-> <<>>, tokenValid |-> FALSE, expiresIn |-> 0,
           hasPermission |-> FALSE, userRole |-> "", requiredRole |-> ""]
Response(status, error, message, data) ==
  [status |-> status, success |-> (status = 200), error |-> error,
   message |-> message, data |-> data]
NoResponse == Response(0, "", "", NoData)

\* the Authorization header: absent, or a scheme prefix and the rest
NoHeader == <<>>
Bearer(token) == << [prefix |-> "Bearer ", rest |-> token] >>
Basic(token) == << [prefix |-> "Basic ", rest |-> token] >>
\* !authHeader || !authHeader.startsWith('Bearer ')
noBearer(authHeader) == authHeader = NoHeader \/ authHeader[1].prefix # "Bearer "

\* controller login: the response and the store's updated_at afterwards
login(store, stamps, body, t, fault) ==
  IF ~validateLoginInput(body)
  THEN [res |-> Response(400, "Datos de entrada inválidos", "", NoData),
        updated_at |-> stamps]
  ELSE
    LET r == loginUser(store, stamps, body.email, body.password, t, fault) IN
    IF r.ok
    THEN [res |-> Response(200, "", "Login exitoso",
                    [NoData EXCEPT !.user = r.user, !.token = r.token,
                                   !.expiresIn = r.expiresIn]),
          updated_at |-> r.updated_at]
    ELSE [res |-> Response(401, "Error de autenticación", r.err.message, NoData),
          updated_at |-> r.updated_at]

\* controller verifyToken
verifyTokenController(store, stamps, authHeader, t, fault) ==
  IF noBearer(authHeader)
  THEN Response(401, "Token no proporcionado",
                "Se requiere un token de autorización", NoData)
  ELSE
    LET r == verifyToken(store, stamps, authHeader[1].rest, t, fault) IN
    IF r.ok
    THEN Response(200, "", "Token válido",
                  [NoData EXCEPT !.user = r.user, !.tokenValid = r.tokenValid])
    ELSE Response(401, "Token inválido", r.err.message, NoData)

\* controller refreshToken
refreshTokenController(store, stamps, authHeader, t, fault) ==
  IF noBearer(authHeader)
  THEN Response(401, "Token no proporcionado", "", NoData)
  ELSE
    LET r == refreshToken(store, stamps, authHeader[1].rest, t, fault) IN
    IF r.ok
    THEN Response(200, "", "Token refrescado exitosamente",
                  [NoData EXCEPT !.token = r.token, !.expiresIn = r.expiresIn])
    ELSE Response(401, "Error al refrescar token", r.err.message, NoData)

\* checkPermissions as it would be if it asked the evaluator the converse
\* question
checkPermissions_converse(reqUser, requiredRole) ==
  IF reqUser = <<>> THEN Response(401, "Usuario no autenticado", "", NoData)
  ELSE IF requiredRole = <<>> \/ requiredRole[1] = ""
  THEN Response(400, "Rol requerido no especificado", "", NoData)
  ELSE Response(200, "", "",
         [NoData EXCEPT !.hasPermission =
                          validatePermissions([role |-> requiredRole[1]], reqUser[1].role),
                        !.userRole = reqUser[1].role,
                        !.requiredRole = requiredRole[1]])

\* controller checkPermissions.  reqUser is req.user (<<>> when unattached),
\* requiredRole is req.body.requiredRole (<<>> when the body has none).
checkPermissions(reqUser, requiredRole) ==
  IF reqUser = <<>> THEN Response(401, "Usuario no autenticado", "", NoData)
  ELSE IF requiredRole = <<>> \/ requiredRole[1] = ""
  THEN Response(400, "Rol requerido no especificado", "", NoData)
  ELSE Response(200, "", "",
         [NoData EXCEPT !.hasPermission = validatePermissions(reqUser[1], requiredRole[1]),
                        !.userRole = reqUser[1].role,
                        !.requiredRole = requiredRole[1]])

\* ------------------------------------------------------------- middleware
\* JavaScript values that meet in a strict comparison
JsString(x) == [t |-> "string", v |-> x]
JsNumber(n) == [t |-> "number", v |-> n]
JsUndefined == [t |-> "undefined", v |-> 0]
\* a === b
strictEquals(a, b) == a.t = b.t /\ a.v = b.v

\* how the driver hands over users.id: a number for an integer column, a
\* string for a bigint, uuid or text column (the schema is not in the code)
IdTypes == {"number", "string"}
jsId(id, idType) == IF idType = "number" THEN JsNumber(id) ELSE JsString(ToString(id))

\* the request object: headers.authorization, params, and what gates attach
NoRequest ==
  [open |-> FALSE, headers |-> NoHeader, params |-> [userId |-> ""],
   user |-> <<>>, token |-> <<>>]
Request(authHeader, userId) ==
  [open |-> TRUE, headers |-> authHeader, params |-> [userId |-> userId],
   user |-> <<>>, token |-> <<>>]
\* req.params[name]
param(r, name) ==
  IF name \in DOMAIN r.params THEN JsString(r.params[name]) ELSE JsUndefined

\* what one run of a gate did: the request afterwards, the response sent
\* (NoResponse when none) and the number of calls of next
GateOut(r, res, nextCalls) == [req |-> r, res |-> res, next |-> nextCalls]

\* requireAuth as it would be if the catch block fell through to next()
requireAuth_nextOnFailure(store, stamps, r, t, fault) ==
  IF noBearer(r.headers)
  THEN GateOut(r, Response(401, "Token de autorización requerido",
         "Debes proporcionar un token válido en el header Authorization", NoData), 0)
  ELSE
    LET token == r.headers[1].rest
        result == verifyToken(store, stamps, token, t, fault)
    IN IF result.ok
       THEN GateOut([r EXCEPT !.user = result.user, !.token = <<token>>], NoResponse, 1)
       ELSE GateOut(r, NoResponse, 1)

\* requireAuth
requireAuth(store, stamps, r, t, fault) ==
  IF noBearer(r.headers)
  THEN GateOut(r, Response(401, "Token de autorización requerido",
         "Debes proporcionar un token válido en el header Authorization", NoData), 0)
  ELSE
    LET token == r.headers[1].rest
        result == verifyToken(store, stamps, token, t, fault)
    IN IF result.ok
       THEN GateOut([r EXCEPT !.user = result.user, !.token = <<token>>], NoResponse, 1)
       ELSE GateOut(r, Response(401, "Token inválido", result.err.message, NoData), 0)

\* optionalAuth as it would be if a failed verification ended the request
optionalAuth_rejects(store, stamps, r, t, fault) ==
  IF noBearer(r.headers) THEN GateOut(r, NoResponse, 1)
  ELSE
    LET token == r.headers[1].rest
        result == verifyToken(store, stamps, token, t, fault)
    IN IF result.ok
       THEN GateOut([r EXCEPT !.user = result.user, !.token = <<token>>], NoResponse, 1)
       ELSE GateOut(r, Response(401, "Token inválido", result.err.message, NoData), 0)

\* optionalAuth
optionalAuth(store, stamps, r, t, fault) ==
  IF noBearer(r.headers) THEN GateOut(r, NoResponse, 1)
  ELSE
    LET token == r.headers[1].rest
        result == verifyToken(store, stamps, token, t, fault)
    IN IF result.ok
       THEN GateOut([r EXCEPT !.user = result.user, !.token = <<token>>], NoResponse, 1)
       ELSE GateOut(r, NoResponse, 1)

\* Array.prototype.includes
includes(arr, x) == \E i \in 1..Len(arr) : arr[i] = x

\* Array.prototype.join: the items with the separator between them
RECURSIVE join(_, _)
join(arr, sep) ==
  IF arr = <<>> THEN <<>>
  ELSE IF Len(arr) = 1 THEN arr
  ELSE <<arr[1], sep>> \o join(Tail(arr), sep)

\* Array.isArray(allowedRoles) ? allowedRoles : [allowedRoles]
normalizeRoles(allowedRoles) ==
  IF allowedRoles.array THEN allowedRoles.items ELSE <<allowedRoles.str>>

\* requireRole as it would be if only the first allowed role were compared
requireRole_firstOnly(allowedRoles, r) ==
  LET roles == normalizeRoles(allowedRoles) IN
  IF r.user = <<>>
  THEN GateOut(r, Response(401, "Usuario no autenticado",
         "Debes estar autenticado para acceder a esta ruta", NoData), 0)
  ELSE IF roles = <<>> \/ roles[1] # r.user[1].role
  THEN GateOut(r, Response(403, "Permisos insuficientes",
         <<"Se requiere uno de estos roles: ">> \o join(roles, ", "), NoData), 0)
  ELSE GateOut(r, NoResponse, 1)

\* requireRole as it would be if it looked the subject's role up again
requireRole_reResolves(allowedRoles, r) ==
  LET roles == normalizeRoles(allowedRoles) IN
  IF r.user = <<>>
  THEN GateOut(r, Response(401, "Usuario no autenticado",
         "Debes estar autenticado para acceder a esta ruta", NoData), 0)
  ELSE IF ~(/\ users[r.user[1].id].is_active
            /\ includes(roles, users[r.user[1].id].role))
  THEN GateOut(r, Response(403, "Permisos insuficientes",
         <<"Se requiere uno de estos roles: ">> \o join(roles, ", "), NoData), 0)
  ELSE GateOut(r, NoResponse, 1)

\* the gate requireRole(allowedRoles) returns
requireRole(allowedRoles, r) ==
  LET roles == normalizeRoles(allowedRoles) IN
  IF r.user = <<>>
  THEN GateOut(r, Response(401, "Usuario no autenticado",
         "Debes estar autenticado para acceder a esta ruta", NoData), 0)
  ELSE IF ~includes(roles, r.user[1].role)
  THEN GateOut(r, Response(403, "Permisos insuficientes",
         <<"Se requiere uno de estos roles: ">> \o join(roles, ", "), NoData), 0)
  ELSE GateOut(r, NoResponse, 1)

\* requireSelfOrAdmin as it would be if the 403 answer did not return
requireSelfOrAdmin_fallsThrough(userIdParam, r, idType) ==
  IF r.user = <<>>
  THEN GateOut(r, Response(401, "Usuario no autenticado", "", NoData), 0)
  ELSE
    LET targetUserId == param(r, userIdParam)
        currentUserId == jsId(r.user[1].id, idType)
        userRole == r.user[1].role
        isSelf == strictEquals(targetUserId, currentUserId)
        isAdmin == includes(<<"administrador", "presidente">>, userRole)
    IN IF ~isSelf /\ ~isAdmin
       THEN GateOut(r, Response(403, "Permisos insuficientes",
              "Solo puedes acceder a tus propios datos o ser administrador", NoData), 1)
       ELSE GateOut(r, NoResponse, 1)

\* the gate requireSelfOrAdmin(userIdParam) returns
requireSelfOrAdmin(userIdParam, r, idType) ==
  IF r.user = <<>>
  THEN GateOut(r, Response(401, "Usuario no autenticado", "", NoData), 0)
  ELSE
    LET targetUserId == param(r, userIdParam)
        currentUserId == jsId(r.user[1].id, idType)
        userRole == r.user[1].role
        isSelf == strictEquals(targetUserId, currentUserId)
        isAdmin == includes(<<"administrador", "presidente">>, userRole)
    IN IF ~isSelf /\ ~isAdmin
       THEN GateOut(r, Response(403, "Permisos insuficientes",
              "Solo puedes acceder a tus propios datos o ser administrador", NoData), 0)
       ELSE GateOut(r, NoResponse, 1)

\* logoutUser as it would be if it closed the subject's account sessions by
\* touching the store
logoutUser_deactivates(store, stamps, token) ==
  [message |-> "Sesión cerrada correctamente",
   users |-> IF token.payload.userId \in UserIds
             THEN [store EXCEPT ![token.payload.userId].is_active = FALSE]
             ELSE store,
   updated_at |-> stamps]

\* logoutUser: the acknowledgment, and the store as it leaves it
logoutUser(store, stamps, token) ==
  [message |-> "Sesión cerrada correctamente", users |-> store, updated_at |-> stamps]

\* controller logout
logout(store, stamps, authHeader) ==
  IF noBearer(authHeader)
  THEN [res |-> Response(401, "Token no proporcionado", "", NoData),
        users |-> store, updated_at |-> stamps]
  ELSE
    LET result == logoutUser(store, stamps, authHeader[1].rest)
    IN [res |-> Response(200, "", result.message, NoData),
        users |-> result.users, updated_at |-> result.updated_at]

\* ------------------------------------------------------ pooled clients
\* the pool's clients, the code that calls getClient, and how many clients
\* are handed out in all
Clients == {1, 2}
Callers == {"A", "B"}
MaxLeases == 3

\* The pool: the clients not handed out; per client the hand-out whose
\* override is installed as client.release (0: none yet); the hand-outs made
\* by getClient, each with its client, its timer, and how often the release
\* function it captured was called and whether that threw; and the hand-out
\* each caller still holds a reference to (0: none).
PoolInit ==
  [idle |-> Clients, release |-> [c \in Clients |-> 0], leases |-> <<>>,
   holds |-> [w \in Callers |-> 0]]

\* release, the function getClient captured for hand-out i: the pool's own
\* release of that check-out, which returns the client the first time and
\* throws 'already been released' after that
release(p, i) ==
  IF p.leases[i].calls = 0
  THEN [p EXCEPT !.leases[i].calls = 1, !.idle = @ \cup {p.leases[i].client}]
  ELSE [p EXCEPT !.leases[i].calls = @ + 1, !.leases[i].threw = TRUE]

\* clearTimeout(timeout) of hand-out i
clearTimeout(p, i) ==
  [p EXCEPT !.leases[i].timeout = IF @ = "pending" THEN "cleared" ELSE @]

\* client.release as getClient overrides it for hand-out i
clientRelease(p, i) == release(clearTimeout(p, i), i)

\* getClient for caller w when pool.connect() resolves with client c
getClient(p, w, c) ==
  [p EXCEPT !.idle = @ \ {c},
            !.leases = Append(@, [client |-> c, timeout |-> "pending",
                                  calls |-> 0, threw |-> FALSE]),
            !.release[c] = Len(p.leases) + 1,
            !.holds[w] = Len(p.leases) + 1]

\* ------------------------------------------------------------- the router
\* the routes in the order they are registered: app.get('/health'), then the
\* auth router mounted on /auth with each route's gates and handler
routes ==
  << [method |-> "GET", path |-> "/health", gates |-> <<>>, handler |-> "health"],
     [method |-> "POST", path |-> "/auth/login", gates |-> <<>>, handler |-> "login"],
     [method |-> "GET", path |-> "/auth/verify", gates |-> <<>>,
      handler |-> "verifyToken"],
     [method |-> "POST", path |-> "/auth/refresh", gates |-> <<>>,
      handler |-> "refreshToken"],
     [method |-> "POST", path |-> "/auth/logout", gates |-> <<>>, handler |-> "logout"],
     [method |-> "GET", path |-> "/auth/profile", gates |-> <<"requireAuth">>,
      handler |-> "getProfile"],
     [method |-> "POST", path |-> "/auth/check-permissions",
      gates |-> <<"requireAuth">>, handler |-> "checkPermissions"] >>

\* app.use('*'): what a request no route took is answered
notFound == [method |-> "", path |-> "*", gates |-> <<>>, handler |-> "notFound"]
notFoundResponse == Response(404, "Ruta no encontrada", "", NoData)

\* the first registered route that matches the request, else the 404 handler
dispatch(method, path) ==
  LET matching == {i \in 1..Len(routes) :
                     routes[i].method = method /\ routes[i].path = path}
  IN IF matching = {} THEN notFound
     ELSE routes[CHOOSE i \in matching : \A j \in matching : i <= j]

\* -------------------------------------------------------------- the client
\* what a caller can make of a token it holds before sending it
Garbage == [form |-> "garbage", payload |-> NoPayload, sig |-> hmac("", NoPayload)]
TamperModes == {"asis", "flipSig", "escalate", "extend", "garbage"}
tamper(token, mode) ==
  CASE mode = "asis" -> token
    [] mode = "flipSig" -> [token EXCEPT !.sig = hmac("flipped", token.payload)]
    [] mode = "escalate" -> [token EXCEPT !.payload.role = "presidente"]
    [] mode = "extend" -> [token EXCEPT !.payload.exp = @ + 1]
    [] OTHER -> Garbage

\* the Authorization headers a caller holding held (<<>> or <<token>>) may send
Headers(held) ==
  IF held = <<>> THEN {NoHeader, Bearer(Garbage)}
  ELSE {NoHeader, Basic(held[1])} \cup {Bearer(tamper(held[1], m)) : m \in TamperModes}

Faults == {"none", "find", "update"}

\* req.user as a gate may have attached it, and req.body.requiredRole
ReqUsers ==
  {<<>>} \cup {<<[id |-> id, email |-> EmailOf(id), role |-> r]>> :
                 id \in UserIds, r \in RoleNames}
RequiredRoles == {<<>>} \cup {<<r>> : r \in RoleNames}

\* rows other parties may change in the store
MutableIds == {1}

Idle ==
  [op |-> "none", email |-> <<>>, password |-> "", fault |-> "none",
   header |-> NoHeader, reqUser |-> <<>>, requiredRole |-> <<>>,
   allowedRoles |-> [array |-> TRUE, items |-> <<>>], userIdParam |-> "",
   idType |-> "", before |-> NoRequest, next |-> 0,
   prior |-> <<>>, method |-> "", path |-> "", route |-> notFound,
   res |-> NoResponse]

\* ------------------------------------------------------------------- Init
Init ==
  /\ users = [id \in UserIds |->
               [present |-> TRUE, is_active |-> TRUE,
                role |-> IF id = 1 THEN "arbitro" ELSE "administrador"]]
  /\ updated_at = [id \in UserIds |-> 0]
  /\ now = 0
  /\ tok = <<>>
  /\ last = Idle
  /\ req = NoRequest
  /\ pool = PoolInit

\* ---------------------------------------------------- the store's owners
SetActive ==
  \E id \in MutableIds, b \in BOOLEAN :
    /\ users[id].present /\ users[id].is_active # b
    /\ users' = [users EXCEPT ![id].is_active = b]
    /\ last' = Idle
    /\ UNCHANGED <<updated_at, now, tok, req, pool>>

ChangeRole ==
  \E id \in MutableIds, r \in Roles :
    /\ users[id].present /\ users[id].role # r
    /\ users' = [users EXCEPT ![id].role = r]
    /\ last' = Idle
    /\ UNCHANGED <<updated_at, now, tok, req, pool>>

DeleteUser ==
  \E id \in MutableIds :
    /\ users[id].present
    /\ users' = [users EXCEPT ![id] =
                   [present |-> FALSE, is_active |-> FALSE, role |-> "arbitro"]]
    /\ updated_at' = [updated_at EXCEPT ![id] = 0]
    /\ last' = Idle
    /\ UNCHANGED <<now, tok, req, pool>>

Tick ==
  /\ now < MaxTime
  /\ now' = now + 1
  /\ last' = Idle
  /\ UNCHANGED <<users, updated_at, tok, req, pool>>

\* ------------------------------------------------------------- requests
\* POST /auth/login; a caller that gets a token keeps it
LoginStep(email, password, fault) ==
  LET out == login(users, updated_at, [email |-> email, password |-> password],
                   now, fault)
  IN /\ last' = [Idle EXCEPT !.op = "login", !.email = email,
                             !.password = password, !.fault = fault,
                             !.res = out.res]
     /\ updated_at' = out.updated_at
     /\ tok' = IF out.res.status = 200 THEN out.res.data.token ELSE tok
     /\ UNCHANGED <<users, now, req, pool>>

Login ==
  \E email \in EmailInputs, password \in Passwords, fault \in Faults :
    LoginStep(email, password, fault)

\* POST /auth/login when jwt.sign throws
LoginSignFails ==
  \E email \in EmailInputs, password \in Passwords :
    LoginStep(email, password, "sign")

\* a user signing in with the own credentials
Issue == \E id \in UserIds : LoginStep(EmailOf(id), PasswordOf(id), "none")

\* GET /auth/verify.  prior remembers the principal of the call before when
\* that call verified the same header with success and nothing happened
\* in between.
Verify ==
  \E h \in Headers(tok), fault \in {"none", "find"} :
    /\ last' = [Idle EXCEPT !.op = "verify", !.header = h, !.fault = fault,
                            !.prior = IF /\ last.op = "verify" /\ last.header = h
                                         /\ last.res.status = 200
                                      THEN last.res.data.user ELSE <<>>,
                            !.res = verifyTokenController(users, updated_at, h, now, fault)]
    /\ UNCHANGED <<users, updated_at, now, tok, req, pool>>

\* POST /auth/refresh; the caller keeps the old token or takes the new one
Refresh ==
  \E h \in Headers(tok), fault \in {"none", "find", "sign"}, adopt \in BOOLEAN :
    LET res == refreshTokenController(users, updated_at, h, now, fault)
    IN /\ last' = [Idle EXCEPT !.op = "refresh", !.header = h, !.fault = fault,
                               !.res = res]
       /\ tok' = IF res.status = 200 /\ adopt THEN res.data.token ELSE tok
       /\ UNCHANGED <<users, updated_at, now, req, pool>>

\* POST /auth/check-permissions, behind whatever attached req.user
CheckPermissions ==
  \E u \in ReqUsers, rr \in RequiredRoles :
    /\ last' = [Idle EXCEPT !.op = "checkPermissions", !.reqUser = u,
                            !.requiredRole = rr,
                            !.res = checkPermissions(u, rr)]
    /\ UNCHANGED <<users, updated_at, now, tok, req, pool>>

\* POST /auth/logout
Logout ==
  \E h \in Headers(tok) :
    LET out == logout(users, updated_at, h)
    IN /\ last' = [Idle EXCEPT !.op = "logout", !.header = h, !.res = out.res]
       /\ users' = out.users
       /\ updated_at' = out.updated_at
       /\ UNCHANGED <<now, tok, req, pool>>

\* ------------------------------------------------------------- dispatch
\* the requests callers send: the documented endpoints and some others
Methods == {"GET", "POST", "PUT", "DELETE"}
Paths ==
  {"/health", "/auth/login", "/auth/register", "/auth/verify", "/auth/refresh",
   "/auth/logout", "/auth/profile", "/auth/check-permissions", "/auth/users", "/"}

\* the app picks the route of a request; the 404 handler answers at once,
\* any other route's gates and handler have yet to run
Dispatch ==
  \E method \in Methods, path \in Paths :
    LET route == dispatch(method, path) IN
    /\ last' = [Idle EXCEPT !.op = "dispatch", !.method = method, !.path = path,
                            !.route = route,
                            !.res = IF route.handler = "notFound"
                                    THEN notFoundResponse ELSE NoResponse]
    /\ UNCHANGED <<users, updated_at, now, tok, req, pool>>

\* ------------------------------------------------------ pooled clients
\* a caller takes a client from the pool
GetClient ==
  \E w \in Callers, c \in pool.idle :
    /\ pool.holds[w] = 0 /\ Len(pool.leases) < MaxLeases
    /\ pool' = getClient(pool, w, c)
    /\ UNCHANGED <<users, updated_at, now, tok, last, req>>

\* a caller calls client.release() on the client it was handed: whatever
\* function is installed on that client object runs
CallerRelease ==
  \E w \in Callers :
    /\ pool.holds[w] # 0
    /\ LET c == pool.leases[pool.holds[w]].client
       IN pool' = [clientRelease(pool, pool.release[c]) EXCEPT !.holds[w] = 0]
    /\ UNCHANGED <<users, updated_at, now, tok, last, req>>

\* the 5 second timer of a hand-out fires: its callback calls
\* client.release() on that client
TimerFires ==
  \E i \in 1..Len(pool.leases) :
    /\ pool.leases[i].timeout = "pending"
    /\ LET fired == [pool EXCEPT !.leases[i].timeout = "fired"]
       IN pool' = clientRelease(fired, fired.release[fired.leases[i].client])
    /\ UNCHANGED <<users, updated_at, now, tok, last, req>>

\* ------------------------------------------------------ middleware chain
\* path values of the :userId parameter, and of the gates' configuration
PathIds == {"1", "2", "7"}
AllowedRoleArgs ==
  { [array |-> TRUE, items |-> <<"administrador", "presidente">>],
    [array |-> TRUE, items |-> <<"arbitro">>],
    [array |-> FALSE, str |-> "presidente"],
    [array |-> TRUE, items |-> <<>>] }
UserIdParams == {"userId", "id"}

\* a request arrives
NewRequest ==
  \E h \in Headers(tok), id \in PathIds :
    /\ req' = Request(h, id)
    /\ last' = Idle
    /\ UNCHANGED <<users, updated_at, now, tok, pool>>

\* one gate runs on the request the chain has reached it with
GateStep(op, out, given) ==
  /\ req.open
  /\ req' = [out.req EXCEPT !.open = (out.next > 0 /\ out.res = NoResponse)]
  /\ last' = [given EXCEPT !.op = op, !.before = req, !.next = out.next,
                           !.res = out.res]
  /\ UNCHANGED <<users, updated_at, now, tok, pool>>

RequireAuth ==
  \E fault \in {"none", "find"} :
    GateStep("requireAuth", requireAuth(users, updated_at, req, now, fault),
             [Idle EXCEPT !.fault = fault])

OptionalAuth ==
  \E fault \in {"none", "find"} :
    GateStep("optionalAuth", optionalAuth(users, updated_at, req, now, fault),
             [Idle EXCEPT !.fault = fault])

RequireRole ==
  \E a \in AllowedRoleArgs :
    GateStep("requireRole", requireRole(a, req), [Idle EXCEPT !.allowedRoles = a])

RequireSelfOrAdmin ==
  \E name \in UserIdParams, ty \in IdTypes :
    GateStep("requireSelfOrAdmin", requireSelfOrAdmin(name, req, ty),
             [Idle EXCEPT !.userIdParam = name, !.idType = ty])

\* the handler of /auth/check-permissions at the end of a chain
HandleCheckPermissions ==
  \E rr \in RequiredRoles :
    /\ req.open
    /\ req' = [req EXCEPT !.open = FALSE]
    /\ last' = [Idle EXCEPT !.op = "checkPermissions", !.reqUser = req.user,
                            !.requiredRole = rr, !.before = req,
                            !.res = checkPermissions(req.user, rr)]
    /\ UNCHANGED <<users, updated_at, now, tok, pool>>

\* ------------------------------------------------------- specifications
\* token life cycle: sign in, verify, refresh, against a changing store
Next ==
  \/ SetActive \/ ChangeRole \/ DeleteUser \/ Tick
  \/ Issue \/ Verify \/ Refresh \/ Logout
Spec == Init /\ [][Next]_vars

\* the login use case over all its inputs
NextLogin == SetActive \/ ChangeRole \/ DeleteUser \/ Tick \/ Login
SpecLogin == Init /\ [][NextLogin]_vars

\* the permission evaluator over all its inputs
NextPerm == CheckPermissions
SpecPerm == Init /\ [][NextPerm]_vars

\* login, verify and refresh over all their inputs and failures, against a
\* changing store (the clock stands still: token expiry is exercised under
\* Spec)
NextAll ==
  \/ SetActive \/ ChangeRole \/ DeleteUser
  \/ Login \/ LoginSignFails \/ Verify \/ Refresh
SpecAll == Init /\ [][NextAll]_vars

\* the app as callers reach it: every request is dispatched, and the
\* routes without a body are served (the clock stands still)
NextApp ==
  \/ SetActive \/ ChangeRole \/ DeleteUser \/ Issue
  \/ Dispatch \/ Verify \/ Logout
SpecApp == Init /\ [][NextApp]_vars

\* callers taking clients from the pool and giving them back, with timers
NextPool == GetClient \/ CallerRelease \/ TimerFires
SpecPool == Init /\ [][NextPool]_vars

\* requests passing through chains of gates while the store changes (the
\* clock stands still: token expiry is exercised under Spec)
NextGate ==
  \/ SetActive \/ ChangeRole \/ DeleteUser \/ Issue
  \/ NewRequest \/ RequireAuth \/ OptionalAuth \/ RequireRole
  \/ RequireSelfOrAdmin \/ HandleCheckPermissions
SpecGate == Init /\ [][NextGate]_vars

\* ======================================================================
\* Properties
\* ======================================================================

\* the body of the login request just handled
LastBody == [email |-> last.email, password |-> last.password]
\* ids of the store's records for the e-mail of the login just handled
LastRecords ==
  {id \in UserIds : users[id].present /\ EmailOf(id) = trim(toLowerCase(last.email))}
\* the login just handled passed input validation and reached the service
LoginReached == last.op = "login" /\ validateLoginInput(LastBody)

InvalidCredentialsResponse ==
  Response(401, "Error de autenticación", "Email o contraseña incorrectos", NoData)

\* C1: a login for a record that exists, with the matching password, whose
\* active flag is false, fails with 'Usuario inactivo. Contacta al
\* administrador' (not with the invalid-credentials message) and issues no
\* token.  The store answers its queries.
C1_InactiveLoginReportsInactive ==
  (/\ LoginReached /\ last.fault = "none"
   /\ \E id \in LastRecords :
        /\ bcryptCompare(last.password, bcryptHash(PasswordOf(id)))
        /\ ~users[id].is_active)
  => /\ last.res.status # 200
     /\ last.res.data.token = <<>>
     /\ last.res.message = "Usuario inactivo. Contacta al administrador"
     /\ last.res # InvalidCredentialsResponse

\* C3: a login whose e-mail has no record and a login with an existing e-mail
\* and a wrong password get the same response, 401 'Email o contraseña
\* incorrectos', whenever the store answers the lookup; when the lookup
\* fails both get the same opaque error.  The response never depends on
\* whether the account exists.
C3_UnknownAndWrongPasswordAlike ==
  (/\ LoginReached
   /\ \/ LastRecords = {}
      \/ \E id \in LastRecords :
           ~bcryptCompare(last.password, bcryptHash(PasswordOf(id))))
  => last.res = IF last.fault = "find"
                THEN Response(401, "Error de autenticación",
                              "Error al procesar el login", NoData)
                ELSE InvalidCredentialsResponse

\* C3 witness: a wrong password for an existing, active account was answered
C3_Witness ==
  /\ LoginReached /\ last.fault = "none"
  /\ \E id \in LastRecords :
       /\ users[id].is_active
       /\ ~bcryptCompare(last.password, bcryptHash(PasswordOf(id)))
  /\ last.res.status = 401

\* the login just handled names an existing, active user with the right password
LastLoginGoodCredentials ==
  /\ LoginReached
  /\ \E id \in LastRecords :
       /\ users[id].is_active
       /\ bcryptCompare(last.password, bcryptHash(PasswordOf(id)))

\* C4 as claimed: with good credentials for an active user, login succeeds
\* and returns a principal and a token even if recording the last login fails.
C4_LoginSurvivesUpdateFailure ==
  (LastLoginGoodCredentials /\ last.fault = "update")
  => /\ last.res.status = 200
     /\ last.res.data.user # <<>>
     /\ last.res.data.token # <<>>

\* C4 amended: recording the last login is part of login.  With good
\* credentials for an active user, login fails with the opaque 'Error al
\* procesar el login' and returns neither principal nor token when the
\* record-last-login update fails; it succeeds, with updated_at set to the
\* login instant, when the store answers.
C4_UpdateFailureAbortsLogin ==
  /\ (LastLoginGoodCredentials /\ last.fault = "update")
     => last.res = Response(401, "Error de autenticación",
                            "Error al procesar el login", NoData)
  /\ (LastLoginGoodCredentials /\ last.fault = "none")
     => /\ last.res.status = 200
        /\ last.res.data.user # <<>> /\ last.res.data.token # <<>>
        /\ \A id \in LastRecords : updated_at[id] = now

\* C4 witness: a login with good credentials met a failing update
C4_Witness ==
  LastLoginGoodCredentials /\ last.fault = "update" /\ last.res.status = 401

\* the token of the verify / refresh request just handled, when its header
\* was a Bearer header
LastBearer == ~noBearer(last.header)
LastToken == last.header[1].rest
\* a token's signature validates against the configured secret
SignatureValid(token) == token.form = "jwt" /\ token.sig = hmac(JWT_SECRET, token.payload)
\* the store's record for a token's subject
SubjectPresent(token) ==
  token.payload.userId \in UserIds /\ users[token.payload.userId].present
SubjectActive(token) ==
  SubjectPresent(token) /\ users[token.payload.userId].is_active

\* C2: verify of an issued, unexpired token whose subject is still in the
\* store but deactivated fails with 'Usuario inactivo', not with the
\* 'Usuario no encontrado' of a missing subject.  The store answers.
C2_DeactivatedSubjectReportsInactive ==
  (/\ last.op = "verify" /\ LastBearer /\ last.fault = "none"
   /\ SignatureValid(LastToken) /\ now < LastToken.payload.exp
   /\ SubjectPresent(LastToken) /\ ~SubjectActive(LastToken))
  => /\ last.res.status = 401
     /\ last.res.message = "Usuario inactivo"
     /\ last.res.message # "Usuario no encontrado"

\* the permission check just handled reached the evaluator
PermEvaluated == last.op = "checkPermissions" /\ last.res.status = 200

\* C5: the evaluator never allows on an unrecognized role: if the held role
\* or the required role is not one of the three roles, the result is false.
C5_UnknownRoleDenied ==
  (/\ PermEvaluated
   /\ \/ last.res.data.userRole \notin Roles
      \/ last.res.data.requiredRole \notin Roles)
  => last.res.data.hasPermission = FALSE

\* the level of a role as the specification gives it
SpecLevel(r) == CASE r = "arbitro" -> 1 [] r = "administrador" -> 2 [] r = "presidente" -> 3
\* the relation the evaluator induces on role names
Satisfies(r1, r2) == validatePermissions([role |-> r1], r2)

\* C6: on the three roles the evaluator answers true iff level(held) >=
\* level(required) with arbitro=1, administrador=2, presidente=3, and the
\* induced relation is a total order with presidente >= administrador >=
\* arbitro.
C6_RoleOrder ==
  /\ (/\ PermEvaluated
      /\ last.res.data.userRole \in Roles
      /\ last.res.data.requiredRole \in Roles)
     => (last.res.data.hasPermission
           <=> SpecLevel(last.res.data.userRole) >= SpecLevel(last.res.data.requiredRole))
  /\ \A r1 \in Roles, r2 \in Roles :
       Satisfies(r1, r2) <=> SpecLevel(r1) >= SpecLevel(r2)
  /\ \A r \in Roles : Satisfies(r, r)
  /\ \A r1 \in Roles, r2 \in Roles, r3 \in Roles :
       Satisfies(r1, r2) /\ Satisfies(r2, r3) => Satisfies(r1, r3)
  /\ \A r1 \in Roles, r2 \in Roles :
       Satisfies(r1, r2) /\ Satisfies(r2, r1) => r1 = r2
  /\ \A r1 \in Roles, r2 \in Roles : Satisfies(r1, r2) \/ Satisfies(r2, r1)
  /\ Satisfies("presidente", "administrador") /\ Satisfies("administrador", "arbitro")

\* C6 witness: an administrador was checked against arbitro and allowed
C6_Witness ==
  /\ PermEvaluated
  /\ last.res.data.userRole = "administrador"
  /\ last.res.data.requiredRole = "arbitro"
  /\ last.res.data.hasPermission

\* C7: verify and refresh of a well-formed token whose signature does not
\* validate, expired or not, both fail, return neither principal nor token, and the
\* failure carries the invalid-token classification ('Token inválido').
C7_TamperedTokenClassified ==
  (/\ last.op \in {"verify", "refresh"} /\ LastBearer
   /\ LastToken.form = "jwt" /\ ~SignatureValid(LastToken))
  => /\ last.res.status = 401
     /\ last.res.data.user = <<>> /\ last.res.data.token = <<>>
     /\ last.res.message = "Token inválido"

\* the request just handled presented a correctly signed, expired token
\* whose subject is present and active, and the store answered
LastExpiredGood ==
  /\ LastBearer /\ last.fault = "none"
  /\ SignatureValid(LastToken) /\ now >= LastToken.payload.exp
  /\ SubjectActive(LastToken)

\* C8: for a correctly signed token whose expiry has elapsed and whose
\* subject is present and active, verify fails with 'Token expirado' while
\* refresh of the same token at the same instant succeeds with a new token.
C8_ExpiryBoundary ==
  /\ (last.op = "verify" /\ LastExpiredGood)
     => /\ last.res = Response(401, "Token inválido", "Token expirado", NoData)
        /\ LET r == refreshTokenController(users, updated_at, last.header, now, "none")
           IN r.status = 200 /\ r.data.token # <<>>
  /\ (last.op = "refresh" /\ LastExpiredGood)
     => /\ last.res.status = 200
        /\ last.res.data.token # <<>>
        /\ SignatureValid(last.res.data.token[1])
        /\ verifyTokenController(users, updated_at, last.header, now, "none")
             = Response(401, "Token inválido", "Token expirado", NoData)

\* C8 witness: an expired token of an active subject was refreshed
C8_Witness ==
  last.op = "refresh" /\ LastExpiredGood /\ last.res.status = 200

\* C9: refresh of a correctly signed token whose subject is missing or
\* inactive fails with 'Usuario no válido para refresh' and issues no token.
C9_SubjectInvalidReported ==
  (/\ last.op = "refresh" /\ LastBearer /\ last.fault = "none"
   /\ SignatureValid(LastToken) /\ ~SubjectActive(LastToken))
  => /\ last.res.status = 401
     /\ last.res.data.token = <<>>
     /\ last.res.message = "Usuario no válido para refresh"

\* C10: a successful refresh returns a token whose payload carries the
\* store's current role for the subject (not the presented token's), the
\* same subject id, and an expiry of the refresh instant plus the lifetime.
C10_RefreshCarriesCurrentRole ==
  (last.op = "refresh" /\ last.res.status = 200)
  => LET new == last.res.data.token[1] IN
     /\ SignatureValid(new)
     /\ new.payload.userId = LastToken.payload.userId
     /\ new.payload.role = users[LastToken.payload.userId].role
     /\ new.payload.exp = now + JWT_EXPIRES_IN

\* C10 witness: a refresh succeeded on a token issued under another role
C10_Witness ==
  /\ last.op = "refresh" /\ last.res.status = 200
  /\ LastToken.payload.role # users[LastToken.payload.userId].role
  /\ last.res.data.token[1].payload.role # LastToken.payload.role

\* the verify request just handled presented a correctly signed, unexpired
\* token and the store answered
LastVerifyGoodToken ==
  /\ last.op = "verify" /\ LastBearer /\ last.fault = "none"
  /\ SignatureValid(LastToken) /\ now < LastToken.payload.exp

\* C11: round trip.  verify of an issued, unexpired token whose user record
\* is present, active and as it was at issuance succeeds, and the principal's
\* id, email and role are those of the user the token was issued for.
C11_RoundTrip ==
  (/\ LastVerifyGoodToken /\ SubjectActive(LastToken)
   /\ users[LastToken.payload.userId].role = LastToken.payload.role)
  => /\ last.res.status = 200
     /\ last.res.data.tokenValid
     /\ last.res.data.user =
          << [id |-> LastToken.payload.userId,
              email |-> EmailOf(LastToken.payload.userId),
              role |-> LastToken.payload.role] >>
     /\ LastToken.payload.email = EmailOf(LastToken.payload.userId)

\* C11 witness: an issued token of an unchanged, active user was verified
C11_Witness ==
  /\ LastVerifyGoodToken /\ SubjectActive(LastToken)
  /\ users[LastToken.payload.userId].role = LastToken.payload.role
  /\ last.res.status = 200

\* C12: whenever verify succeeds the token's subject is present and active
\* in the store at that moment, and the principal's id, email and role are
\* the store's values, not those embedded in the token at issuance.
C12_PrincipalFromStore ==
  (last.op = "verify" /\ last.res.status = 200)
  => /\ LastBearer /\ SignatureValid(LastToken)
     /\ SubjectActive(LastToken)
     /\ last.res.data.user =
          << [id |-> LastToken.payload.userId,
              email |-> EmailOf(LastToken.payload.userId),
              role |-> users[LastToken.payload.userId].role] >>

\* C12 witness: verify succeeded on a token issued under an earlier role
C12_Witness ==
  /\ last.op = "verify" /\ last.res.status = 200
  /\ LastToken.payload.role # users[LastToken.payload.userId].role
  /\ last.res.data.user[1].role # LastToken.payload.role

\* ------------------------------------------------------ the gates' claims
\* the request as the gate just run received it
Before == last.before
\* it carried a Bearer header, and the token in it
BeforeBearer == ~noBearer(Before.headers)
BeforeToken == Before.headers[1].rest
\* verification of that token succeeds: the store answers, the signature
\* validates, the expiry has not elapsed, the subject is present and active
BeforeVerifies ==
  /\ BeforeBearer /\ last.fault = "none"
  /\ SignatureValid(BeforeToken) /\ now < BeforeToken.payload.exp
  /\ SubjectActive(BeforeToken)
\* the principal verification resolves for that token
BeforePrincipal ==
  << [id |-> BeforeToken.payload.userId,
      email |-> EmailOf(BeforeToken.payload.userId),
      role |-> users[BeforeToken.payload.userId].role] >>
\* the gate just run called next and sent nothing
Continued == last.next = 1 /\ last.res = NoResponse /\ req.open
\* the gate just run left what earlier gates attached as it was
NothingAttached == req.user = Before.user /\ req.token = Before.token

\* C13: requireAuth calls next, with req.user the verified principal and
\* req.token the raw token, iff the Authorization header is a Bearer header
\* and verification of the rest succeeds; in every other case (no header,
\* another scheme, any verification failure, a store failure) it responds
\* 401, does not call next and attaches nothing.
C13_RequireAuthGate ==
  last.op = "requireAuth"
  => /\ Continued <=> BeforeVerifies
     /\ BeforeVerifies
        => req.user = BeforePrincipal /\ req.token = <<BeforeToken>>
     /\ ~BeforeVerifies
        => /\ last.res # NoResponse /\ last.res.status = 401
           /\ last.next = 0 /\ ~req.open
           /\ NothingAttached
           /\ Before.user = <<>> => req.user = <<>>

\* C13 witness: requireAuth turned away a request whose token had verified
\* until the subject was deactivated
C13_Witness ==
  /\ last.op = "requireAuth" /\ BeforeBearer /\ last.fault = "none"
  /\ SignatureValid(BeforeToken) /\ SubjectPresent(BeforeToken)
  /\ ~SubjectActive(BeforeToken)
  /\ last.res.status = 401 /\ req.user = <<>>

\* C14: optionalAuth never fails the request: for every header and every
\* verification outcome it calls next and sends no response; it attaches
\* the principal iff the header is a Bearer header and verification
\* succeeded, and otherwise attaches nothing.
C14_OptionalAuthGate ==
  last.op = "optionalAuth"
  => /\ Continued
     /\ BeforeVerifies
        => req.user = BeforePrincipal /\ req.token = <<BeforeToken>>
     /\ ~BeforeVerifies => NothingAttached
     /\ Before.user = <<>> => (req.user # <<>> <=> BeforeVerifies)

\* C14 witness: optionalAuth let a request through unattached although it
\* carried a Bearer token, the store having failed
C14_Witness ==
  /\ last.op = "optionalAuth" /\ BeforeBearer /\ last.fault = "find"
  /\ SignatureValid(BeforeToken)
  /\ Continued /\ req.user = <<>>

\* the role set S the gate just run was built for, as a sequence
AllowedSeq ==
  IF last.allowedRoles.array THEN last.allowedRoles.items
  ELSE <<last.allowedRoles.str>>
AllowedSet == {AllowedSeq[i] : i \in 1..Len(AllowedSeq)}
\* a message that names exactly the roles of S, in order, comma separated
ListsAllowed(message) ==
  /\ Len(message) = 2 * Len(AllowedSeq)
  /\ message[1] = "Se requiere uno de estos roles: "
  /\ \A i \in 1..Len(AllowedSeq) : message[2 * i] = AllowedSeq[i]
  /\ \A i \in 1..(Len(AllowedSeq) - 1) : message[2 * i + 1] = ", "

\* C15: a gate built by requireRole(S), S not empty: without an attached
\* principal it answers 401 'Usuario no autenticado'; with one it calls next
\* iff the principal's role is a member of S, and otherwise answers 403
\* 'Permisos insuficientes' with a message listing exactly the roles of S.
C15_RequireRoleGate ==
  (last.op = "requireRole" /\ AllowedSeq # <<>>)
  => /\ Before.user = <<>>
        => /\ last.res # NoResponse /\ last.res.status = 401
           /\ last.res.error = "Usuario no autenticado"
           /\ last.next = 0
     /\ Before.user # <<>>
        => /\ Continued <=> Before.user[1].role \in AllowedSet
           /\ Before.user[1].role \notin AllowedSet
              => /\ last.res # NoResponse /\ last.res.status = 403
                 /\ last.res.error = "Permisos insuficientes"
                 /\ ListsAllowed(last.res.message)
                 /\ last.next = 0

\* C15 witness: requireRole([administrador, presidente]) denied an arbitro
\* with a message listing 'administrador, presidente'
C15_Witness ==
  /\ last.op = "requireRole"
  /\ AllowedSeq = <<"administrador", "presidente">>
  /\ Before.user # <<>> /\ Before.user[1].role = "arbitro"
  /\ last.res # NoResponse /\ last.res.status = 403
  /\ last.res.message =
       <<"Se requiere uno de estos roles: ", "administrador", ", ", "presidente">>

\* the path parameter the gate just run was configured with names the
\* attached principal's own id
TargetIsSelf ==
  /\ last.userIdParam \in DOMAIN Before.params
  /\ Before.params[last.userIdParam] = ToString(Before.user[1].id)

\* C16: a gate built by requireSelfOrAdmin(param), given a principal that
\* verification attached from a store record, allows the request iff the
\* principal's id equals the target id of the path parameter or the
\* principal's role is administrador or presidente, and otherwise answers
\* 403.
C16_SelfOrAdminGate ==
  (last.op = "requireSelfOrAdmin" /\ Before.user # <<>>)
  => LET allowed == \/ TargetIsSelf
                    \/ Before.user[1].role \in {"administrador", "presidente"}
     IN /\ Continued <=> allowed
        /\ ~allowed => (last.res # NoResponse /\ last.res.status = 403)

\* C18: a change in the store is not applied within a request.  A gate
\* that runs after the principal was attached leaves the principal as
\* attached and decides on it whatever the store says by then: requireRole
\* on the attached role, requireSelfOrAdmin's elevated-role bypass on the
\* attached role, checkPermissions on the attached role.  The next
\* verification resolves the subject anew: what requireAuth attaches is
\* the store's record at that moment.
C18_NoRetroactiveChange ==
  /\ (last.op \in {"requireRole", "requireSelfOrAdmin", "checkPermissions"}
      /\ Before.user # <<>>)
     => LET p == Before.user[1] IN
        /\ req.user = Before.user
        /\ (last.op = "requireRole" /\ AllowedSeq # <<>>)
           => (Continued <=> p.role \in AllowedSet)
        /\ (last.op = "requireSelfOrAdmin"
            /\ p.role \in {"administrador", "presidente"}) => Continued
        /\ (last.op = "requireSelfOrAdmin"
            /\ p.role \notin {"administrador", "presidente"} /\ ~TargetIsSelf)
           => last.res # NoResponse /\ last.res.status = 403
        /\ last.op = "checkPermissions"
           => /\ last.requiredRole # <<>> /\ last.requiredRole[1] # ""
                 => /\ last.res.status = 200
                    /\ last.res.data.userRole = p.role
                    /\ last.res.data.hasPermission =
                         validatePermissions(p, last.requiredRole[1])
              /\ last.res.status # 401
  /\ (last.op = "requireAuth" /\ Continued)
     => /\ SubjectActive(BeforeToken)
        /\ req.user[1].role = users[req.user[1].id].role

\* C18 witness: requireRole let a request through on the role attached by
\* requireAuth after the store had deactivated the subject or given it a
\* role outside the allowed set
C18_Witness ==
  /\ last.op = "requireRole" /\ Before.user # <<>> /\ Continued
  /\ Before.token # <<>>
  /\ LET u == users[Before.user[1].id]
     IN ~u.is_active \/ u.role \notin AllowedSet

\* ------------------------------------------------------------- logout
\* C17: logout changes no server-side state.  Across every logout the
\* store, the clock and the held token are as before, and for every header
\* a caller can send, verify and refresh answer after the logout what they
\* would have answered without it.
C17_LogoutChangesNothing ==
  [][last'.op = "logout"
     => /\ users' = users /\ updated_at' = updated_at
        /\ now' = now /\ tok' = tok
        /\ \A h \in Headers(tok), fault \in {"none", "find"} :
             /\ verifyTokenController(users', updated_at', h, now', fault)
                  = verifyTokenController(users, updated_at, h, now, fault)
             /\ refreshTokenController(users', updated_at', h, now', fault)
                  = refreshTokenController(users, updated_at, h, now, fault)
    ]_vars

\* C17 witness: a token was logged out with success and still verifies
C17_Witness ==
  /\ last.op = "logout" /\ last.res.status = 200
  /\ LastBearer /\ SignatureValid(LastToken)
  /\ verifyTokenController(users, updated_at, last.header, now, "none").status = 200

\* ------------------------------------------------- what callers are told
\* the messages the service defines for each use case
LoginMessages ==
  {"Login exitoso", "", "Email o contraseña incorrectos",
   "Usuario inactivo. Contacta al administrador", "Error al procesar el login"}
VerifyMessages ==
  {"Token válido", "Se requiere un token de autorización", "Token inválido",
   "Token expirado", "Usuario no encontrado", "Usuario inactivo",
   "Error al verificar el token"}
RefreshMessages == {"Token refrescado exitosamente", "", "Error al refrescar el token"}
\* what the collaborators say when they fail
RawMessages == {DbError.message, SignError.message}
\* the fields of a principal projection
PrincipalFields == {"id", "email", "role"}

\* C19: no output of login, verify or refresh reveals store internals.
\* Every principal in a success payload has the projection's fields only
\* (no password hash), no token payload carries the hash, every message is
\* one of the service's fixed messages and never a collaborator's own
\* error text, and a failure of the store or of signing reaches the caller
\* only as the use case's opaque message.
C19_NoStoreInternals ==
  last.op \in {"login", "verify", "refresh"}
  => /\ last.res.message \notin RawMessages
     /\ last.res.error \notin RawMessages
     /\ last.op = "login" => last.res.message \in LoginMessages
     /\ last.op = "verify" => last.res.message \in VerifyMessages
     /\ last.op = "refresh" => last.res.message \in RefreshMessages
     /\ \A i \in 1..Len(last.res.data.user) :
          DOMAIN last.res.data.user[i] = PrincipalFields
     /\ \A i \in 1..Len(last.res.data.token) :
          "password_hash" \notin DOMAIN last.res.data.token[i].payload
     /\ (LoginReached /\ last.fault = "find")
        => (last.res.status = 401 /\ last.res.message = "Error al procesar el login")
     /\ (LastLoginGoodCredentials /\ last.fault \in {"update", "sign"})
        => (last.res.status = 401 /\ last.res.message = "Error al procesar el login")
     /\ (/\ last.op = "verify" /\ LastBearer /\ last.fault = "find"
         /\ SignatureValid(LastToken) /\ now < LastToken.payload.exp)
        => (last.res.status = 401 /\ last.res.message = "Error al verificar el token")
     /\ (last.op = "refresh" /\ LastBearer /\ last.fault # "none")
        => (last.res.status = 401 /\ last.res.message = "Error al refrescar el token")

\* C19 witness: signing failed for a user with good credentials and the
\* caller was told 'Error al procesar el login' and nothing else
C19_Witness ==
  /\ LastLoginGoodCredentials /\ last.fault = "sign"
  /\ last.res.status = 401 /\ last.res.message = "Error al procesar el login"
  /\ last.res.data = NoData

\* ------------------------------------------------------ check-permissions
\* the request just handled named no required role: the body had none, or
\* an empty one
RequiredRoleMissing == last.requiredRole = <<>> \/ last.requiredRole[1] = ""

\* C20: checkPermissions without an attached principal answers 401
\* whatever the body holds; with a principal and no required role (absent or
\* empty) it answers 400; otherwise it answers 200 with userRole the
\* principal's role, requiredRole the role asked for, and hasPermission the
\* evaluator's answer for that pair.
C20_CheckPermission ==
  last.op = "checkPermissions"
  => /\ last.reqUser = <<>>
        => /\ last.res.status = 401
           /\ last.res.error = "Usuario no autenticado"
           /\ last.res.data = NoData
     /\ (last.reqUser # <<>> /\ RequiredRoleMissing)
        => /\ last.res.status = 400
           /\ last.res.error = "Rol requerido no especificado"
           /\ last.res.data = NoData
     /\ (last.reqUser # <<>> /\ ~RequiredRoleMissing)
        => /\ last.res.status = 200
           /\ last.res.data.userRole = last.reqUser[1].role
           /\ last.res.data.requiredRole = last.requiredRole[1]
           /\ last.res.data.hasPermission =
                validatePermissions(last.reqUser[1], last.requiredRole[1])

\* C20 witness: an arbitro asked about presidente and was answered with
\* both roles and hasPermission false
C20_Witness ==
  /\ last.op = "checkPermissions" /\ last.res.status = 200
  /\ last.reqUser # <<>> /\ last.reqUser[1].role = "arbitro"
  /\ last.requiredRole = <<"presidente">>
  /\ last.res.data.userRole = "arbitro"
  /\ last.res.data.requiredRole = "presidente"
  /\ ~last.res.data.hasPermission

\* ---------------------------------------------------- the routes' claims
\* the token in the header of the request just handled passes verification
\* now: signature, expiry, and an active subject in the store
LastTokenVerifies ==
  /\ LastBearer /\ SignatureValid(LastToken)
  /\ now < LastToken.payload.exp /\ SubjectActive(LastToken)

\* C21: POST /auth/logout requires authentication: a logout whose bearer
\* token does not pass verification (bad signature, expired, subject
\* unknown or inactive) is rejected, not acknowledged with success.
C21_LogoutRequiresAuth ==
  (last.op = "logout" /\ LastBearer /\ ~LastTokenVerifies)
  => (last.res.status # 200 /\ ~last.res.success)

C23_RegisterRouted ==
  (last.op = "dispatch" /\ last.method = "POST" /\ last.path = "/auth/register")
  => /\ last.route.handler # "notFound"
     /\ last.res # notFoundResponse

\* the gates
GateOps == {"requireAuth", "optionalAuth", "requireRole", "requireSelfOrAdmin"}

\* C24: every run of a gate ends in exactly one of two ways, once: it sent
\* a response and did not call next, or it called next once and sent
\* nothing; never both, never neither, never next twice.
C24_RespondOrNextOnce ==
  last.op \in GateOps
  => \/ (last.res # NoResponse /\ last.res.status # 0 /\ last.next = 0)
     \/ (last.res = NoResponse /\ last.next = 1)

\* C24 witness: requireAuth on its error path (the store failed under a
\* well-signed token) answered 401 and did not call next
C24_Witness ==
  /\ last.op = "requireAuth" /\ last.fault = "find"
  /\ BeforeBearer /\ SignatureValid(BeforeToken)
  /\ last.res.status = 401 /\ last.next = 0

\* ------------------------------------------------------ renewal for ever
\* C25: refresh puts no bound on how long ago the presented token expired.
\* For every correctly signed token of a present, active subject, with the
\* store and the signer answering, refresh succeeds at whatever time it is
\* called and issues a correctly signed token of a full lifetime, which can
\* be refreshed in turn; and the token presented is not invalidated: if it
\* is unexpired it still verifies after the refresh.
C25_RefreshUnbounded ==
  (/\ last.op = "refresh" /\ LastBearer /\ last.fault = "none"
   /\ SignatureValid(LastToken) /\ SubjectActive(LastToken))
  => /\ last.res.status = 200
     /\ LET new == last.res.data.token[1] IN
        /\ SignatureValid(new) /\ SubjectActive(new)
        /\ new.payload.exp = now + JWT_EXPIRES_IN
        /\ refreshTokenController(users, updated_at, Bearer(new), now, "none").status = 200
     /\ now < LastToken.payload.exp
        => verifyTokenController(users, updated_at, last.header, now, "none").status = 200

\* C25 witness: a token that was itself obtained by refresh, after the
\* subject's last sign-in, and has expired since, was refreshed with success
C25_Witness ==
  /\ last.op = "refresh" /\ LastBearer /\ last.fault = "none"
  /\ SignatureValid(LastToken) /\ SubjectActive(LastToken)
  /\ LastToken.payload.iat > updated_at[LastToken.payload.userId]
  /\ now >= LastToken.payload.exp
  /\ verifyTokenController(users, updated_at, last.header, now, "none").status = 401
  /\ last.res.status = 200

\* ------------------------------------------- what a login gives away
\* the records for the e-mail of the login just handled whose password the
\* caller did not give
LastRecordsWrongPassword ==
  {id \in LastRecords : ~bcryptCompare(last.password, bcryptHash(PasswordOf(id)))}
\* the response the login just handled would have got from another store
LoginResponseUnder(store) ==
  login(store, updated_at, LastBody, now, last.fault).res

\* C26: login never reveals an account's active status to a caller who
\* does not know the password.  With a wrong password the response is the
\* one the same request gets with the account's active flag the other way
\* round and the one it gets with no such account; for an inactive account
\* it is the invalid-credentials response when the store answers.  The
\* account-inactive message is never sent unless the password given is the
\* right one for an inactive account.
C26_ActiveStatusHidden ==
  /\ LoginReached
     => \A id \in LastRecordsWrongPassword :
          /\ last.res = LoginResponseUnder([users EXCEPT ![id].is_active = ~@])
          /\ last.res = LoginResponseUnder([users EXCEPT ![id].present = FALSE])
          /\ (~users[id].is_active /\ last.fault = "none")
             => last.res = InvalidCredentialsResponse
  /\ (last.op = "login"
      /\ last.res.message = "Usuario inactivo. Contacta al administrador")
     => /\ LoginReached
        /\ \E id \in LastRecords :
             /\ ~users[id].is_active
             /\ bcryptCompare(last.password, bcryptHash(PasswordOf(id)))

\* C26 witness: a wrong password for an inactive account got the
\* invalid-credentials response
C26_Witness ==
  /\ LoginReached /\ last.fault = "none"
  /\ \E id \in LastRecordsWrongPassword : ~users[id].is_active
  /\ last.res = InvalidCredentialsResponse

\* ------------------------------------------------------ pooled clients
\* C27: a client handed out by getClient is released to the pool at most
\* once whatever the order of the caller's release() and the timer: the
\* release function captured for a hand-out is called at most once and never
\* meets a client already released.
C27_ReleasedAtMostOnce ==
  \A i \in 1..Len(pool.leases) :
    pool.leases[i].calls <= 1 /\ ~pool.leases[i].threw

====
